---- MODULE Spec2Model ----
(***************************************************************************)
(* Model of src/src/element.rs: the radix-trie node type Element<T>, its   *)
(* accessors, its structural edit primitives and the breadth-first walk    *)
(* collect_all_child_values.                                               *)
(*                                                                         *)
(* A tree is a function from element identities (1..N) to element records. *)
(* An element record is one of the three enum variants:                    *)
(*   [kind |-> "Value", label, value, children]                            *)
(*   [kind |-> "Node",  label, children]                                   *)
(*   [kind |-> "Base",  label, children]                                   *)
(* `children` is the owned Vec<Element<T>>, as the sequence of identities  *)
(* of the owned elements.  A label is a Rust String: a sequence of UTF-8   *)
(* bytes.  Option<T> is a sequence of length 0 (None) or 1 (Some).         *)
(***************************************************************************)
EXTENDS Integers, Sequences, FiniteSets, TLC

VARIABLES
    tree,        \* the elements, by identity
    aborted,     \* TRUE once an assert!/panic has fired
    last,        \* the last operation that ran (history)
    nops,        \* number of operations run so far
    pc,          \* position of the running collect_all_child_values call
    recv,        \* the receiver (self) of the last/running collect call
    labels,      \* local `labels` of collect_all_child_values
    res,         \* local `res` (and the returned vector)
    child_queue, \* local `children` VecDeque of collect_all_child_values
    enqueued,    \* history: elements pushed on child_queue, in order
    visited      \* history: elements popped from child_queue, in order

vars == <<tree, aborted, last, nops, pc, recv, labels, res, child_queue,
          enqueued, visited>>

----------------------------------------------------------------------------
(* Bounds of the model *)

MaxLen == 3      \* longest label (bytes) the edit operations may build
MaxOps == 2      \* operations per behaviour of Spec

----------------------------------------------------------------------------
(* Strings: sequences of UTF-8 bytes *)

\* the values of type T the operations are called with
Values == {"v1", "v2"}

Kinds == {"Value", "Node", "Base"}

\* the prefixes add_label_prefix is called with: "", "a", "e-acute" (the
\* two bytes 0xC3 0xA9) and "ba"
Prefixes == {<<>>, <<97>>, <<195, 169>>, <<98, 97>>}

Ids == DOMAIN tree

\* variant of is_char_boundary: only the bound is tested, not the byte
is_char_boundary_in_bounds(s, index) == index <= Len(s)

\* str::is_char_boundary: index 0 and len are boundaries, an index past the
\* end is not, and otherwise the byte at index must not be a continuation
\* byte (0x80..0xBF), i.e. (b as i8) >= -0x40.
is_char_boundary(s, index) ==
    IF index = 0 THEN TRUE
    ELSE IF index >= Len(s) THEN index = Len(s)
    ELSE LET b == s[index + 1] IN b < 128 \/ b >= 192

\* String::replace_range(..n, ""): asserts that n is a char boundary (which
\* also bounds it by the length), then deletes the first n bytes.
replace_range_to(s, n) ==
    IF is_char_boundary(s, n)
    THEN [ok |-> TRUE, s |-> SubSeq(s, n + 1, Len(s))]
    ELSE [ok |-> FALSE, s |-> s]

\* variant of insert_str_front: String::push_str(p)
push_str_back(s, p) == s \o p

\* String::insert_str(0, p)
insert_str_front(s, p) == p \o s

----------------------------------------------------------------------------
(* Accessors *)

\* the unpack! macro: (label, Option<value>, children) for every variant
unpack(el) ==
    CASE el.kind = "Value" -> <<el.label, <<el.value>>, el.children>>
      [] el.kind = "Node"  -> <<el.label, <<>>, el.children>>
      [] el.kind = "Base"  -> <<el.label, <<>>, el.children>>

label(el) == unpack(el)[1]

value(el) == unpack(el)[2]

children(el) == unpack(el)[3]

is_node(el) ==
    CASE el.kind = "Node" -> TRUE
      [] OTHER -> FALSE

\* variant of label_mut: the element is rebuilt as a Node around the label
label_mut_rebuild_node(el, s) ==
    [kind |-> "Node", label |-> s, children |-> el.children]

\* a write through label_mut(): the String behind the reference is replaced
label_mut(el, s) == [el EXCEPT !.label = s]

\* a write through value_mut(): Some(&mut v) for a Value, None otherwise
value_mut(el, v) ==
    IF value(el) # <<>> THEN [el EXCEPT !.value = v] ELSE el

----------------------------------------------------------------------------
(* Structural edit primitives, as functions on one element *)

remove_label_prefix(el, prefix_len) ==
    LET r == replace_range_to(label(el), prefix_len)
    IN  [ok |-> r.ok, el |-> IF r.ok THEN label_mut(el, r.s) ELSE el]

add_label_prefix(el, prefix) ==
    label_mut(el, insert_str_front(label(el), prefix))

RECURSIVE PopAll(_, _)
\* the `while let Some(child) = children.pop() { old.push(child) }` loop
PopAll(c, old) ==
    IF c = <<>> THEN old
    ELSE PopAll(SubSeq(c, 1, Len(c) - 1), Append(old, c[Len(c)]))

\* Vec::reverse
reverse(s) == [i \in 1..Len(s) |-> s[Len(s) + 1 - i]]

\* variant of take_children: the final old.reverse() is left out
take_children_unreversed(el) == PopAll(children(el), <<>>)

\* take_children: the returned vector (self is left with no children)
take_children(el) == reverse(PopAll(children(el), <<>>))

\* variant of node_to_value_assert: a Value may be promoted again
node_to_value_assert_not_base(el) == el.kind # "Base"

\* variant of node_to_value_assert: any valueless element may be promoted
node_to_value_assert_no_value(el) == el.kind # "Value"

\* the assert! of node_to_value
node_to_value_assert(el) == el.kind = "Node"

\* node_to_value after its assert: the slot is overwritten with a Value
node_to_value(el, v) ==
    LET taken == take_children(el)
    IN  [kind |-> "Value", label |-> label(el), value |-> v,
         children |-> taken]

----------------------------------------------------------------------------
(* collect_all_child_values *)

\* one (String, &T) entry of the result; `ref` is the element the &T
\* borrows from
Entry(k, v, e) == [key |-> k, value |-> v, ref |-> e]

\* variant of tag_children: only the first child is queued
tag_children_first_only(el, index) ==
    IF children(el) = <<>> THEN <<>> ELSE << <<index, children(el)[1]>> >>

\* variant of tag_children: children are tagged with labels.len()
tag_children_next_index(el, index) ==
    [i \in 1..Len(children(el)) |-> <<index + 1, children(el)[i]>>]

\* children.into_iter().map(|child| (index, child))
tag_children(el, index) ==
    [i \in 1..Len(children(el)) |-> <<index, children(el)[i]>>]

\* lines 106-116: the locals before the loop
collect_begin(t, e) ==
    LET lbls == <<label(t[e])>>
        r == IF value(t[e]) # <<>>
             THEN <<Entry(label(t[e]), value(t[e])[1], e)>>
             ELSE <<>>
        q == tag_children(t[e], Len(lbls) - 1)
    IN  [labels |-> lbls, res |-> r, child_queue |-> q,
         enqueued |-> [i \in 1..Len(q) |-> q[i][2]], visited |-> <<>>,
         panic |-> FALSE]

\* variant of pop_front: VecDeque::pop_back
pop_back(q) == <<q[Len(q)], SubSeq(q, 1, Len(q) - 1)>>

\* VecDeque::pop_front on a non-empty queue: (popped, rest)
pop_front(q) == <<Head(q), Tail(q)>>

\* variant of loop_body: the popped element's label is joined to the newest
\* table entry instead of labels[prefix_index]
loop_body_newest_label(t, st) ==
    LET popped == pop_front(st.child_queue)
        element == popped[1][2]
        lbl == st.labels[Len(st.labels)] \o label(t[element])
        lbls == Append(st.labels, lbl)
        index == Len(lbls) - 1
        r == IF value(t[element]) # <<>>
             THEN Append(st.res,
                         Entry(lbls[index + 1], value(t[element])[1],
                               element))
             ELSE st.res
        tags == tag_children(t[element], index)
    IN  [labels |-> lbls, res |-> r,
         child_queue |-> popped[2] \o tags,
         enqueued |-> st.enqueued \o [i \in 1..Len(tags) |-> tags[i][2]],
         visited |-> Append(st.visited, element), panic |-> FALSE]

\* lines 117-127: one iteration of the while-let loop (queue not empty);
\* labels[prefix_index] panics when the index is out of bounds
loop_body(t, st) ==
    LET popped == pop_front(st.child_queue)
        prefix_index == popped[1][1]
        element == popped[1][2]
    IN  IF prefix_index >= Len(st.labels)
        THEN [st EXCEPT !.panic = TRUE]
        ELSE
        LET lbl == st.labels[prefix_index + 1] \o label(t[element])
            lbls == Append(st.labels, lbl)
            index == Len(lbls) - 1
            r == IF value(t[element]) # <<>>
                 THEN Append(st.res,
                             Entry(lbls[index + 1], value(t[element])[1],
                                   element))
                 ELSE st.res
            tags == tag_children(t[element], index)
        IN  [labels |-> lbls, res |-> r,
             child_queue |-> popped[2] \o tags,
             enqueued |-> st.enqueued \o
                          [i \in 1..Len(tags) |-> tags[i][2]],
             visited |-> Append(st.visited, element), panic |-> FALSE]

RECURSIVE run_loop(_, _)
\* the while-let loop, run until the queue is empty
run_loop(t, st) ==
    IF st.panic \/ st.child_queue = <<>> THEN st
    ELSE run_loop(t, loop_body(t, st))

\* the whole call, as one function of the tree and the receiver
collect_all_child_values(t, e) == run_loop(t, collect_begin(t, e))

----------------------------------------------------------------------------
(* Trees the model starts from *)

MkElement(k, l, v, c) ==
    IF k = "Value" THEN [kind |-> k, label |-> l, value |-> v, children |-> c]
    ELSE [kind |-> k, label |-> l, children |-> c]

\* children vectors of small trees; identities follow construction order,
\* element 1 is the root
Shape1 == << <<>> >>

Shape2 == << <<2>>, <<>> >>

Shape3Wide == << <<2, 3>>, <<>>, <<>> >>

Shape3Deep == << <<2>>, <<3>>, <<>> >>

Shape4 == << <<2, 4>>, <<3>>, <<>>, <<>> >>

Shape4Swap == << <<4, 2>>, <<3>>, <<>>, <<>> >>

MkTree(shape, kinds, lbls) ==
    [i \in 1..Len(shape) |-> MkElement(kinds[i], lbls[i], "v1", shape[i])]

\* get_test_example() of the tests: in -> d -> {ustry, ustri -> al ->
\* ization, ia -> n}
get_test_example ==
    << [kind |-> "Base", label |-> <<105, 110>>, children |-> <<2>>],
       [kind |-> "Node", label |-> <<100>>, children |-> <<3, 4, 7>>],
       [kind |-> "Value", label |-> <<117, 115, 116, 114, 121>>,
        value |-> "v1", children |-> <<>>],
       [kind |-> "Node", label |-> <<117, 115, 116, 114, 105>>,
        children |-> <<5>>],
       [kind |-> "Value", label |-> <<97, 108>>, value |-> "v1",
        children |-> <<6>>],
       [kind |-> "Value", label |-> <<105, 122, 97, 116, 105, 111, 110>>,
        value |-> "v1", children |-> <<>>],
       [kind |-> "Value", label |-> <<105, 97>>, value |-> "v1",
        children |-> <<8>>],
       [kind |-> "Value", label |-> <<110>>, value |-> "v1",
        children |-> <<>>] >>

\* labels of the trees the edit operations start from: "a", "e-acute",
\* "b", "ab"
EditLabels == << <<97>>, <<195, 169>>, <<98>>, <<97, 98>> >>

EditShapes == {Shape2, Shape3Wide, Shape3Deep}

EditTrees ==
    UNION { { MkTree(sh, k, EditLabels) : k \in [1..Len(sh) -> Kinds] }
            : sh \in EditShapes }

LoopLabels == {<<97>>, <<195, 169>>}

LoopShapes == {Shape1, Shape2, Shape3Wide, Shape3Deep, Shape4, Shape4Swap}

LoopTrees ==
    {get_test_example} \cup
    UNION { { MkTree(sh, k, l) : k \in [1..Len(sh) -> Kinds],
                                 l \in [1..Len(sh) -> LoopLabels] }
            : sh \in LoopShapes }

----------------------------------------------------------------------------
(* State machine *)

NoOp == [op |-> "none", elem |-> 1, prefix |-> <<>>, prefix_len |-> 0,
         value |-> "v1", old |-> <<>>, undo |-> <<>>]

walk == <<pc, recv, labels, res, child_queue, enqueued, visited>>

\* no collect call has run yet
Idle ==
    /\ pc = "idle"
    /\ recv = 1
    /\ labels = <<>>
    /\ res = <<>>
    /\ child_queue = <<>>
    /\ enqueued = <<>>
    /\ visited = <<>>

\* the locals of the collect call become those of st
SetWalk(p, e, st) ==
    /\ pc' = p
    /\ recv' = e
    /\ labels' = st.labels
    /\ res' = st.res
    /\ child_queue' = st.child_queue
    /\ enqueued' = st.enqueued
    /\ visited' = st.visited

Init ==
    /\ tree \in EditTrees
    /\ aborted = FALSE
    /\ last = NoOp
    /\ nops = 0
    /\ Idle

InitLoop ==
    /\ tree \in LoopTrees
    /\ aborted = FALSE
    /\ last = NoOp
    /\ nops = 0
    /\ Idle

CanRun == ~aborted /\ pc = "idle" /\ nops < MaxOps

AddLabelPrefix(e, p) ==
    /\ CanRun
    /\ Len(label(tree[e])) + Len(p) <= MaxLen
    /\ tree' = [tree EXCEPT ![e] = add_label_prefix(tree[e], p)]
    /\ last' = [NoOp EXCEPT !.op = "add_label_prefix", !.elem = e,
                            !.prefix = p, !.old = <<tree[e]>>]
    /\ nops' = nops + 1
    /\ UNCHANGED <<aborted, walk>>

RemoveLabelPrefix(e, n) ==
    /\ CanRun
    /\ LET r == remove_label_prefix(tree[e], n)
       IN  /\ tree' = [tree EXCEPT ![e] = r.el]
           /\ aborted' = ~r.ok
    /\ last' = [NoOp EXCEPT !.op = "remove_label_prefix", !.elem = e,
                            !.prefix_len = n, !.old = <<tree[e]>>,
                            !.undo = IF /\ last.op = "add_label_prefix"
                                        /\ last.elem = e
                                        /\ Len(last.prefix) = n
                                     THEN <<label(last.old[1])>>
                                     ELSE <<>>]
    /\ nops' = nops + 1
    /\ UNCHANGED walk

NodeToValue(e, v) ==
    /\ CanRun
    /\ IF node_to_value_assert(tree[e])
       THEN /\ tree' = [tree EXCEPT ![e] = node_to_value(tree[e], v)]
            /\ aborted' = FALSE
       ELSE /\ tree' = tree
            /\ aborted' = TRUE
    /\ last' = [NoOp EXCEPT !.op = "node_to_value", !.elem = e,
                            !.value = v, !.old = <<tree[e]>>]
    /\ nops' = nops + 1
    /\ UNCHANGED walk

ValueMutWrite(e, v) ==
    /\ CanRun
    /\ tree' = [tree EXCEPT ![e] = value_mut(tree[e], v)]
    /\ last' = [NoOp EXCEPT !.op = "value_mut", !.elem = e,
                            !.value = v, !.old = <<tree[e]>>]
    /\ nops' = nops + 1
    /\ UNCHANGED <<aborted, walk>>

\* a whole collect_all_child_values call
CollectAllChildValues(e) ==
    /\ CanRun
    /\ LET st == collect_all_child_values(tree, e)
       IN  /\ SetWalk("idle", e, st)
           /\ aborted' = st.panic
    /\ last' = [NoOp EXCEPT !.op = "collect_all_child_values", !.elem = e,
                            !.old = <<tree[e]>>]
    /\ nops' = nops + 1
    /\ UNCHANGED tree

Next ==
    \/ \E e \in Ids, p \in Prefixes : AddLabelPrefix(e, p)
    \/ \E e \in Ids, n \in 0..(MaxLen + 1) : RemoveLabelPrefix(e, n)
    \/ \E e \in Ids, v \in Values : NodeToValue(e, v)
    \/ \E e \in Ids, v \in Values : ValueMutWrite(e, v)
    \/ \E e \in Ids : CollectAllChildValues(e)

Spec == Init /\ [][Next]_vars

(* The loop of collect_all_child_values, one iteration per step *)

CollectBegin(e) ==
    /\ ~aborted /\ pc = "idle"
    /\ LET st == collect_begin(tree, e)
       IN  SetWalk("loop", e, st)
    /\ UNCHANGED <<tree, aborted, last, nops>>

CollectIter ==
    /\ ~aborted /\ pc = "loop"
    /\ child_queue # <<>>
    /\ LET st == loop_body(tree, [labels |-> labels, res |-> res,
                                  child_queue |-> child_queue,
                                  enqueued |-> enqueued,
                                  visited |-> visited, panic |-> FALSE])
       IN  /\ SetWalk("loop", recv, st)
           /\ aborted' = st.panic
    /\ UNCHANGED <<tree, last, nops>>

CollectReturn ==
    /\ ~aborted /\ pc = "loop"
    /\ child_queue = <<>>
    /\ pc' = "done"
    /\ UNCHANGED <<tree, aborted, last, nops, recv, labels, res,
                   child_queue, enqueued, visited>>

NextLoop ==
    \/ \E e \in Ids : CollectBegin(e)
    \/ CollectIter
    \/ CollectReturn

\* a started call runs to completion: nothing suspends or cancels it
SpecLoop == InitLoop /\ [][NextLoop]_vars /\ WF_vars(CollectIter)
                     /\ WF_vars(CollectReturn)

----------------------------------------------------------------------------
(* What the claims speak of, defined from the tree alone *)

Range(s) == {s[i] : i \in 1..Len(s)}

\* number of positions of sequence s that hold x
Count(s, x) == Cardinality({i \in 1..Len(s) : s[i] = x})

RECURSIVE Subtree(_, _)
\* the elements of the subtree rooted at e, e included
Subtree(t, e) ==
    {e} \cup UNION {Subtree(t, c) : c \in Range(t[e].children)}

\* the element that owns x
Parent(t, x) == CHOOSE p \in DOMAIN t : x \in Range(t[p].children)

\* position of x among its parent's children
ChildIndex(t, x) ==
    CHOOSE i \in 1..Len(t[Parent(t, x)].children) :
        t[Parent(t, x)].children[i] = x

RECURSIVE FullKey(_, _, _)
\* concatenation of the labels on the path from e down to x, both included
FullKey(t, e, x) ==
    IF x = e THEN t[e].label
    ELSE FullKey(t, e, Parent(t, x)) \o t[x].label

RECURSIVE Depth(_, _, _)
\* number of edges from e down to x
Depth(t, e, x) == IF x = e THEN 0 ELSE Depth(t, e, Parent(t, x)) + 1

RECURSIVE LeftOf(_, _, _)
\* for two different elements x, y of equal depth: x's parent comes before
\* y's parent (recursively), or they share the parent and x comes first
LeftOf(t, x, y) ==
    IF Parent(t, x) = Parent(t, y)
    THEN ChildIndex(t, x) < ChildIndex(t, y)
    ELSE LeftOf(t, Parent(t, x), Parent(t, y))

\* level order: shallower first; within a depth, by parents and then by
\* position in the parent
LevelBefore(t, e, x, y) ==
    \/ Depth(t, e, x) < Depth(t, e, y)
    \/ /\ Depth(t, e, x) = Depth(t, e, y)
       /\ x # y
       /\ LeftOf(t, x, y)

\* byte length of the UTF-8 character that starts with byte b
CharLen(b) ==
    IF b < 128 THEN 1 ELSE IF b < 224 THEN 2 ELSE IF b < 240 THEN 3 ELSE 4

RECURSIVE CharBoundaries(_, _)
\* the byte offsets at which a character of s starts, walking the
\* characters from offset `from`; the end of s included
CharBoundaries(s, from) ==
    IF from >= Len(s) THEN {Len(s)}
    ELSE {from} \cup CharBoundaries(s, from + CharLen(s[from + 1]))

\* the step just taken ran operation op (every operation counts in nops)
Ran(op) == nops' = nops + 1 /\ last'.op = op

Keys(r) == [i \in 1..Len(r) |-> r[i].key]

Refs(r) == [i \in 1..Len(r) |-> [value |-> r[i].value, ref |-> r[i].ref]]

----------------------------------------------------------------------------
(* Claims *)

\* C1: when collect_all_child_values returns, the result holds exactly one
\* entry per Value element of the receiver's subtree (receiver included),
\* none for a Node or Base element; each entry's key is the concatenation
\* of the labels from the receiver down to its element, and its value is
\* that element's value.
C1_KeyCompleteness ==
    pc = "done" =>
        /\ \A x \in Subtree(tree, recv) :
              Count([i \in 1..Len(res) |-> res[i].ref], x)
                  = IF tree[x].kind = "Value" THEN 1 ELSE 0
        /\ \A i \in 1..Len(res) :
              /\ res[i].ref \in Subtree(tree, recv)
              /\ res[i].key = FullKey(tree, recv, res[i].ref)
              /\ tree[res[i].ref].kind = "Value"
              /\ res[i].value = tree[res[i].ref].value

\* a finished walk over a subtree of three or more elements that holds a
\* Value below a valueless element, and a valueless element
C1_Witness ==
    /\ pc = "done"
    /\ Cardinality(Subtree(tree, recv)) >= 3
    /\ Len(res) >= 2
    /\ \E x \in Subtree(tree, recv) \ {recv} : tree[x].kind = "Node"
    /\ \E x \in Subtree(tree, recv) \ {recv} : tree[x].kind = "Base"

\* keys of the test's expected vector: industry, india, industrial,
\* indian, industrialization
ExpectedKeys ==
    << <<105, 110, 100, 117, 115, 116, 114, 121>>,
       <<105, 110, 100, 105, 97>>,
       <<105, 110, 100, 117, 115, 116, 114, 105, 97, 108>>,
       <<105, 110, 100, 105, 97, 110>>,
       <<105, 110, 100, 117, 115, 116, 114, 105, 97, 108,
         105, 122, 97, 116, 105, 111, 110>> >>

\* C2: the entries come in breadth-first order: the receiver's own entry
\* first, an entry of depth d before every entry of depth d+1, entries of
\* one depth in the order of their parents and of the parent's children;
\* the example tree yields industry, india, industrial, indian,
\* industrialization.
C2_BreadthFirst ==
    pc = "done" =>
        /\ (tree[recv].kind = "Value" => res[1].ref = recv)
        /\ \A i, j \in 1..Len(res) :
              i < j => LevelBefore(tree, recv, res[i].ref, res[j].ref)
        /\ (tree = get_test_example /\ recv = 1 => Keys(res) = ExpectedKeys)

\* the walk of the example tree from its root has returned
C2_Witness ==
    /\ pc = "done"
    /\ tree = get_test_example
    /\ recv = 1
    /\ Len(res) = 5

\* C3: node_to_value on a Node with label L and children C leaves a Value
\* with label L, the given value and children C in the original order;
\* is_node() is then false, value() returns the value, and no other
\* element changes.
C3_PromotionPreservesStructure ==
    [][(Ran("node_to_value") /\ tree[last'.elem].kind = "Node") =>
          LET e == last'.elem
          IN  /\ ~aborted'
              /\ tree'[e] = [kind |-> "Value", label |-> tree[e].label,
                             value |-> last'.value,
                             children |-> tree[e].children]
              /\ ~is_node(tree'[e])
              /\ value(tree'[e]) = <<last'.value>>
              /\ \A x \in DOMAIN tree \ {e} : tree'[x] = tree[x]
              /\ DOMAIN tree' = DOMAIN tree]_vars

\* a Node with two children has been promoted
C3_Witness ==
    /\ last.op = "node_to_value"
    /\ last.old[1].kind = "Node"
    /\ ~aborted
    /\ Len(last.old[1].children) >= 2
    /\ tree[last.elem].kind = "Value"

\* C4: node_to_value on a Base or a Value aborts, whatever the label, the
\* children or the value passed.
C4_PromotionPrecondition ==
    (last.op = "node_to_value" /\ last.old[1].kind \in {"Base", "Value"})
        => aborted /\ tree[last.elem] = last.old[1]

\* node_to_value was called on a Base
C4_Witness ==
    /\ last.op = "node_to_value"
    /\ last.old[1].kind = "Base"
    /\ aborted

\* C5: remove_label_prefix(prefix_len) aborts when prefix_len exceeds the
\* label's byte length or is not on a character boundary; otherwise (0 and
\* the full length included) it returns and the label is the old label
\* without its first prefix_len bytes.
C5_RemoveLabelPrefix ==
    last.op = "remove_label_prefix" =>
        LET old == last.old[1].label
            n == last.prefix_len
        IN  IF n > Len(old) \/ n \notin CharBoundaries(old, 0)
            THEN aborted /\ tree[last.elem] = last.old[1]
            ELSE /\ ~aborted
                 /\ tree[last.elem].label = SubSeq(old, n + 1, Len(old))

\* remove_label_prefix was called with a length inside the label that
\* splits a two-byte character
C5_Witness ==
    /\ last.op = "remove_label_prefix"
    /\ last.prefix_len > 0
    /\ last.prefix_len < Len(last.old[1].label)
    /\ aborted

\* C6: add_label_prefix(p) followed by remove_label_prefix(len(p)) on the
\* same element restores its label and does not abort.
C6_RoundTrip ==
    (last.op = "remove_label_prefix" /\ last.undo # <<>>)
        => ~aborted /\ tree[last.elem].label = last.undo[1]

\* a two-byte prefix was added to a Value and removed again
C6_Witness ==
    /\ last.op = "remove_label_prefix"
    /\ last.undo # <<>>
    /\ last.prefix_len = 2
    /\ tree[last.elem].kind = "Value"

\* C7: the only change of variant an element undergoes is Node to Value,
\* by node_to_value on that element.
C7_OnlyPromotion ==
    [][/\ DOMAIN tree' = DOMAIN tree
       /\ \A e \in DOMAIN tree :
             tree'[e].kind # tree[e].kind =>
                 /\ tree[e].kind = "Node"
                 /\ tree'[e].kind = "Value"
                 /\ Ran("node_to_value")
                 /\ last'.elem = e]_vars

\* a promoted element of a tree that also holds a Base, after two
\* operations
C7_Witness ==
    /\ nops = 2
    /\ last.op = "node_to_value"
    /\ ~aborted
    /\ \E x \in DOMAIN tree : tree[x].kind = "Base"
    /\ \E x \in DOMAIN tree : tree[x].kind = "Node"

\* every element of the receiver's subtree but the receiver has been
\* pushed on the queue once and popped once, and nothing else has
AllVisitedOnce ==
    /\ \A x \in Subtree(tree, recv) \ {recv} :
          Count(enqueued, x) = 1 /\ Count(visited, x) = 1
    /\ Range(enqueued) \cup Range(visited) \subseteq
          Subtree(tree, recv) \ {recv}

\* C8: a started collect_all_child_values call terminates: the queue
\* becomes empty, and by then every element of the receiver's subtree other
\* than the receiver has been enqueued and dequeued exactly once.
C8_Terminates ==
    (pc = "loop") ~> (pc = "done" /\ child_queue = <<>> /\ AllVisitedOnce)

\* a walk over three or more descendants has returned
C8_Witness ==
    /\ pc = "done"
    /\ Len(visited) >= 3
    /\ child_queue = <<>>

\* C9: during the loop every queued (parent_index, element) has
\* parent_index below the length of the label table, and the table entry
\* at parent_index is the full key of the element's parent; the table only
\* grows, by one entry per dequeued element.
C9_QueueIndexInvariant ==
    /\ [](/\ ~aborted
          /\ pc = "loop" =>
                /\ Len(labels) = Len(visited) + 1
                /\ \A i \in 1..Len(child_queue) :
                      /\ child_queue[i][1] < Len(labels)
                      /\ labels[child_queue[i][1] + 1]
                           = FullKey(tree, recv,
                                     Parent(tree, child_queue[i][2])))
    /\ [][pc = "loop" =>
             /\ Len(labels') - Len(labels) = Len(visited') - Len(visited)
             /\ Len(labels') - Len(labels) \in {0, 1}
             /\ SubSeq(labels', 1, Len(labels)) = labels]_vars

\* the loop is running with two queued elements, one of them the child of
\* an element that is not the receiver
C9_Witness ==
    /\ pc = "loop"
    /\ Len(child_queue) >= 2
    /\ \E i \in 1..Len(child_queue) : child_queue[i][1] >= 1

\* C10: a successful add_label_prefix or remove_label_prefix changes only
\* the label of its element: variant, value, children and all other
\* elements stay, and collect_all_child_values on the element returns the
\* same entries in the same order, each key changed by the edited prefix.
C10_LabelEditFrame ==
    [][((Ran("add_label_prefix") \/ Ran("remove_label_prefix"))
          /\ ~aborted') =>
          LET e == last'.elem
              before == collect_all_child_values(tree, e).res
              after == collect_all_child_values(tree', e).res
          IN  /\ tree'[e] = [tree[e] EXCEPT !.label = tree'[e].label]
              /\ \A x \in DOMAIN tree \ {e} : tree'[x] = tree[x]
              /\ DOMAIN tree' = DOMAIN tree
              /\ Refs(after) = Refs(before)
              /\ \A i \in 1..Len(before) :
                    IF last'.op = "add_label_prefix"
                    THEN after[i].key = last'.prefix \o before[i].key
                    ELSE before[i].key =
                             SubSeq(tree[e].label, 1, last'.prefix_len)
                                 \o after[i].key]_vars

\* a non-empty prefix was added to a Value that has a Value child
C10_Witness ==
    /\ last.op = "add_label_prefix"
    /\ last.prefix # <<>>
    /\ tree[last.elem].kind = "Value"
    /\ \E c \in Range(tree[last.elem].children) : tree[c].kind = "Value"

====
